---- MODULE Spec2Model ----
(***************************************************************************)
(* Translation caching and formatting pipeline of the Translator           *)
(* (src/src/translator/translator.py), with the TranslationModel backend   *)
(* (src/src/translator/model.py), the TextFormatter entry point            *)
(* (src/src/utils/text_formatter.py) and the registry metadata the         *)
(* Translator consults (src/src/translator/model_manager.py).              *)
(*                                                                         *)
(* Every method is an operator from the object state (a record `self`)     *)
(* and its arguments to the new state and the outcome of the call; an      *)
(* action applies one method to the current state.  What the environment   *)
(* decides (an inference error, a disk error, a model that fails to load)  *)
(* is an argument of the operator, chosen by the action.                   *)
(***************************************************************************)
EXTENDS Integers, Sequences, FiniteSets, TLC

(***************************************************************************)
(* Bounds of the model.  The first four carry the names of the source's    *)
(* constants but not their values (20, 1000, 5000 entries, 30 days): the   *)
(* code only compares counters, lengths and ages against them, and the     *)
(* values here are the smallest that let every comparison go both ways.    *)
(* Time is counted in whole days.                                          *)
(***************************************************************************)
CACHE_SAVE_INTERVAL == 2
CACHE_CLEANUP_INTERVAL == 3
CACHE_LIMIT_DEFAULT == 1
CACHE_EXPIRY_DAYS == 0
MaxTime == 1
MaxBatch == 2
MaxOps == 3
MaxOptions == 2

(***************************************************************************)
(* Values.                                                                 *)
(***************************************************************************)
DEFAULT_MODEL_ID == "Helsinki-NLP/opus-mt-en-ru"
M2M_MODEL_ID == "facebook/m2m100_418M"
NLLB_MODEL_ID == "facebook/nllb-200-distilled-600M"
UnknownModelId == "unknown/model"

\* the ids of the default registry metadata
KnownModels == {DEFAULT_MODEL_ID, M2M_MODEL_ID, NLLB_MODEL_ID}
\* the ids a caller may pass to change_model
RequestedModels == KnownModels \cup {UnknownModelId}

\* source texts: the empty string, a whitespace-only text, two ordinary ones
Texts == {"", " ", "a", "b"}
BlankTexts == {" "}

None == [none |-> TRUE]
NotLoaded == "None"

OptionNames == {"smart_quotes", "russian_punctuation", "normalize_whitespace", "fix_common_issues"}

\* a translated text: which weights produced it from which source text, the
\* formatting operations applied to it since, and whether its first
\* characters are 'Error:'
Tr(mdl, src) == [mdl |-> mdl, src |-> src, fmt |-> {}, head |-> ""]
EmptyStr == [mdl |-> NotLoaded, src |-> "", fmt |-> {}, head |-> ""]

\* the outcome of a call: a returned value or a raised exception
Ok(v) == [kind |-> "ok", val |-> v, err |-> ""]
Raise(e) == [kind |-> "error", val |-> None, err |-> e]

(***************************************************************************)
(* Python dict, insertion-ordered: a sequence of [key, entry] without      *)
(* repeated keys.                                                          *)
(***************************************************************************)
EmptyDict == << >>
DictKeys(d) == {d[i].key : i \in DOMAIN d}
DictHas(d, k) == \E i \in DOMAIN d : d[i].key = k
DictIdx(d, k) == CHOOSE i \in DOMAIN d : d[i].key = k
DictGet(d, k) == d[DictIdx(d, k)].entry
DictPut(d, k, e) ==
    IF DictHas(d, k) THEN [d EXCEPT ![DictIdx(d, k)] = [key |-> k, entry |-> e]]
    ELSE Append(d, [key |-> k, entry |-> e])

(***************************************************************************)
(* Files of the cache directory.                                           *)
(***************************************************************************)
NoFile == [kind |-> "absent"]
JsonFile(d) == [kind |-> "json", data |-> d]
\* bytes that json.load rejects, or that parse to something other than a dict
CorruptFile == [kind |-> "corrupt"]
OversizeFile == [kind |-> "oversize"]

\* _get_cache_path: one file per model id ('/' replaced by '_'); distinct
\* for the ids of the registry, so the id itself names the file
CachePath(self) == self.current_model_id

\* _get_cache_key: the text itself up to TEXT_HASH_THRESHOLD characters, its
\* md5 digest beyond
TEXT_HASH_THRESHOLD == 100
CacheKey(text) == IF Len(text) > TEXT_HASH_THRESHOLD THEN <<"md5", text>> ELSE <<"text", text>>

(***************************************************************************)
(* TextFormatter.process_text.  The method is wrapped by lru_cache, which  *)
(* hashes the arguments before the body runs: an `operations` dict is      *)
(* unhashable and the call raises TypeError.  With operations = None the   *)
(* body runs with DEFAULT_OPERATIONS.                                      *)
(***************************************************************************)
DEFAULT_OPERATIONS == [o \in OptionNames |-> TRUE]

ProcessTextBody(text, operations) ==
    IF text.src \in BlankTexts \cup {""}
    THEN Raise("ValueError: Text cannot be empty or contain only whitespace")
    ELSE Ok([text EXCEPT !.fmt = @ \cup {o \in OptionNames : operations[o]}])

ProcessText(text, operations) ==
    IF operations # None
    THEN Raise("TypeError: unhashable type: 'dict'")
    ELSE ProcessTextBody(text, DEFAULT_OPERATIONS)

(***************************************************************************)
(* TranslationModel (the backend).                                         *)
(***************************************************************************)
MIN_TEXT_LENGTH == 1
MAX_TEXT_LENGTH == 5000
MAX_BATCH_TOTAL_LENGTH == 10000

ModelLoaded(self) == self.model # NotLoaded /\ self.tokenizer # NotLoaded

\* _validate_text: "" when the text is accepted, the message otherwise
ValidateText(text) ==
    IF text = "" \/ text \in BlankTexts
    THEN "ValueError: Text cannot be empty or contain only whitespace"
    ELSE IF Len(text) < MIN_TEXT_LENGTH THEN "ValueError: Text is too short"
    ELSE IF Len(text) > MAX_TEXT_LENGTH THEN "ValueError: Text is too long"
    ELSE ""

RECURSIVE TotalLength(_)
TotalLength(texts) ==
    IF texts = << >> THEN 0 ELSE Len(Head(texts)) + TotalLength(Tail(texts))

\* _validate_batch
ValidateBatch(texts) ==
    IF texts = << >> THEN "ValueError: Texts list cannot be empty"
    ELSE IF \E i \in DOMAIN texts : ValidateText(texts[i]) # ""
    THEN ValidateText(texts[CHOOSE i \in DOMAIN texts :
                              /\ ValidateText(texts[i]) # ""
                              /\ \A j \in 1..(i-1) : ValidateText(texts[j]) = ""])
    ELSE IF TotalLength(texts) > MAX_BATCH_TOTAL_LENGTH
    THEN "ValueError: Total batch length exceeds maximum limit"
    ELSE ""

\* TranslationModel.translate; infer = "error" when tokenizing, generating or
\* decoding raises, infer = "sentinel" when the decoded string starts with
\* 'Error:'
ModelTranslate(self, text, infer) ==
    IF ~ModelLoaded(self) THEN Raise("RuntimeError: Translation model is not loaded")
    ELSE IF ValidateText(text) # "" THEN Raise(ValidateText(text))
    ELSE IF infer = "error" THEN Raise("RuntimeError: Translation failed")
    ELSE IF infer = "sentinel" THEN Ok([Tr(self.model, text) EXCEPT !.head = "Error:"])
    ELSE Ok(Tr(self.model, text))

\* TranslationModel.translate_batch
ModelTranslateBatch(self, texts, infer) ==
    IF ~ModelLoaded(self) THEN Raise("RuntimeError: Translation model is not loaded")
    ELSE IF ValidateBatch(texts) # "" THEN Raise(ValidateBatch(texts))
    ELSE IF infer = "error" THEN Raise("RuntimeError: Batch translation failed")
    ELSE Ok([i \in DOMAIN texts |-> Tr(self.model, texts[i])])

\* TranslationModel.unload
ModelUnload(self) == [self EXCEPT !.model = NotLoaded, !.tokenizer = NotLoaded]

\* TranslationModel.change_model with _load_model; load says how far the
\* loading gets: "tokenizer" and "model" fail in the respective
\* from_pretrained, "device" fails in model.to(device), after both
\* assignments.  model_id is assigned before loading and never restored.
ModelChangeModel(self, new_id, load) ==
    LET s1 == [self EXCEPT !.model_id = new_id]
        s2 == [s1 EXCEPT !.tokenizer = new_id]
        s3 == [s2 EXCEPT !.model = new_id]
    IN  CASE load = "tokenizer" -> [self |-> s1, out |-> Raise("RuntimeError: Failed to change model")]
          [] load = "model" -> [self |-> s2, out |-> Raise("RuntimeError: Failed to change model")]
          [] load = "device" -> [self |-> s3, out |-> Raise("RuntimeError: Failed to change model")]
          [] OTHER -> [self |-> s3, out |-> Ok(None)]

(***************************************************************************)
(* Translator: the cache on disk and in memory.                            *)
(***************************************************************************)
Expired(entry, now) == now - entry.timestamp > CACHE_EXPIRY_DAYS

\* the entry check of _load_cache (required_fields)
HasRequiredFields(entry) ==
    {"translation", "model_id", "timestamp"} \subseteq DOMAIN entry

\* a JSON value that is not an object, where the file should hold an entry
JsonString == [json_string |-> "x"]
IsDict(entry) == entry # JsonString

\* a JSON value that is not a number (null, a string) where an entry should
\* hold its timestamp; time.time() is never negative
NotANumber == -1

\* the entries the loop of _load_cache keeps; it is run after ParsedBy
KeptByLoad(data, now) ==
    SelectSeq(data, LAMBDA kv : /\ IsDict(kv.entry)
                                /\ HasRequiredFields(kv.entry)
                                /\ ~Expired(kv.entry, now))

\* the try block of _load_cache runs to its end: json.load returns a dict,
\* and current_time - timestamp (l.142) is computed for every entry that
\* passed the two format checks, which raises TypeError unless the
\* timestamp is a number
ParsedBy(file) ==
    /\ file.kind = "json"
    /\ \A i \in DOMAIN file.data :
          (IsDict(file.data[i].entry) /\ HasRequiredFields(file.data[i].entry))
              => file.data[i].entry.timestamp # NotANumber

\* clear_cache that removes the files and keeps the entries in memory
ClearCache_KeepsMemory(self, disk) ==
    IF disk = "remove" THEN self
    ELSE [self EXCEPT !.files[CachePath(self)] = NoFile,
                      !.baks[CachePath(self)] = NoFile]

\* Translator.clear_cache; disk = "remove" when os.remove raises: the
\* failure is logged and the files stay
ClearCache(self, disk) ==
    IF disk = "remove" THEN [self EXCEPT !.translation_cache = EmptyDict]
    ELSE [self EXCEPT !.translation_cache = EmptyDict,
                      !.files[CachePath(self)] = NoFile,
                      !.baks[CachePath(self)] = NoFile]

\* _load_cache that deletes a file it cannot parse and keeps the entries in
\* memory
LoadCache_DropsCorruptFile(self, now, disk) ==
    LET path == CachePath(self)
        file == self.files[path]
    IN  IF ~self.cache_enabled THEN self
        ELSE IF file = NoFile THEN self
        ELSE IF file = OversizeFile THEN ClearCache(self, disk)
        ELSE IF ~ParsedBy(file)
        THEN [self EXCEPT !.files[path] = NoFile]
        ELSE [self EXCEPT !.translation_cache = KeptByLoad(file.data, now)]

\* Translator._load_cache; disk = "rename" when the rename of a corrupt file
\* to .bak raises: the failure is logged and the file stays
LoadCache(self, now, disk) ==
    LET path == CachePath(self)
        file == self.files[path]
    IN  IF ~self.cache_enabled THEN self
        ELSE IF file = NoFile THEN self
        ELSE IF file = OversizeFile THEN ClearCache(self, disk)
        ELSE IF ~ParsedBy(file)
        THEN IF disk = "rename"
             THEN [self EXCEPT !.translation_cache = EmptyDict]
             ELSE [self EXCEPT !.translation_cache = EmptyDict,
                               !.baks[path] = file,
                               !.files[path] = NoFile]
        ELSE [self EXCEPT !.translation_cache = KeptByLoad(file.data, now)]

\* sorted(items, key=timestamp)[:n]: the sort is stable, so among equal
\* timestamps the entries inserted first come first
OldestKeys(d, n) ==
    LET Before(i) == {j \in DOMAIN d :
                        \/ d[j].entry.timestamp < d[i].entry.timestamp
                        \/ d[j].entry.timestamp = d[i].entry.timestamp /\ j < i}
    IN  {d[i].key : i \in {k \in DOMAIN d : Cardinality(Before(k)) < n}}

\* Translator._cleanup_cache
CleanupCache(cache, now) ==
    LET live == SelectSeq(cache, LAMBDA kv : ~Expired(kv.entry, now))
        gone == OldestKeys(live, Len(live) - CACHE_LIMIT_DEFAULT)
    IN  IF Len(live) > CACHE_LIMIT_DEFAULT
        THEN SelectSeq(live, LAMBDA kv : kv.key \notin gone)
        ELSE live

\* the except branch of _save_cache: put the .bak file at the real path
RecoverFromBackup(self) ==
    LET path == CachePath(self)
    IN  IF self.baks[path] # NoFile
        THEN [self EXCEPT !.files[path] = self.baks[path], !.baks[path] = NoFile]
        ELSE self

\* a save that gives up the in-memory cache when the disk fails
SaveCache_DropsOnFailure(self, now, disk) ==
    LET cleaned == IF Len(self.translation_cache) > CACHE_LIMIT_DEFAULT
                   THEN [self EXCEPT !.translation_cache = CleanupCache(@, now)]
                   ELSE self
    IN  IF ~self.cache_enabled THEN self
        ELSE IF disk \in {"makedirs", "write"}
        THEN [RecoverFromBackup(self) EXCEPT !.translation_cache = EmptyDict]
        ELSE [cleaned EXCEPT !.files[CachePath(self)] = JsonFile(cleaned.translation_cache),
                             !.cache_operations = 0]

\* Translator._save_cache; disk says where the disk fails: "makedirs" before
\* the cleanup, "write" after it (writing the temporary file or os.replace);
\* any other value is a disk that takes the write.  The temporary file is
\* never read and is not modelled.
SaveCache(self, now, disk) ==
    LET path == CachePath(self)
        cleaned == IF Len(self.translation_cache) > CACHE_LIMIT_DEFAULT
                   THEN [self EXCEPT !.translation_cache = CleanupCache(@, now)]
                   ELSE self
    IN  IF ~self.cache_enabled THEN self
        ELSE IF disk = "makedirs" THEN RecoverFromBackup(self)
        ELSE IF disk = "write" THEN RecoverFromBackup(cleaned)
        ELSE [cleaned EXCEPT !.files[path] = JsonFile(cleaned.translation_cache),
                             !.cache_operations = 0]

\* the entry stored after a backend translation (translate, translate_batch)
NewEntry(self, translation, translation_raw, apply_formatting, now) ==
    [translation |-> translation,
     translation_raw |-> translation_raw,
     translation_formatted |-> IF apply_formatting THEN translation ELSE None,
     model_id |-> self.current_model_id,
     formatted |-> apply_formatting,
     timestamp |-> now]

\* a periodic save that waits for one more entry than the interval
PeriodicSave_Late(self, now, disk) ==
    LET saved == IF self.cache_operations > CACHE_SAVE_INTERVAL
                 THEN SaveCache(self, now, disk) ELSE self
    IN  IF saved.cache_operations >= CACHE_CLEANUP_INTERVAL
        THEN [saved EXCEPT !.translation_cache = CleanupCache(@, now),
                           !.cache_operations = 0]
        ELSE saved

\* the periodic save and cleanup that end translate and translate_batch
PeriodicSave(self, now, disk) ==
    LET saved == IF self.cache_operations >= CACHE_SAVE_INTERVAL
                 THEN SaveCache(self, now, disk) ELSE self
    IN  IF saved.cache_operations >= CACHE_CLEANUP_INTERVAL
        THEN [saved EXCEPT !.translation_cache = CleanupCache(@, now),
                           !.cache_operations = 0]
        ELSE saved

\* a lookup that takes an entry whatever model made it
CacheHit_AnyModel(self, text) ==
    /\ self.cache_enabled
    /\ DictHas(self.translation_cache, CacheKey(text))

\* the cache lookup of translate and translate_batch: the key is present and
\* the entry belongs to the current model
CacheHit(self, text) ==
    /\ self.cache_enabled
    /\ DictHas(self.translation_cache, CacheKey(text))
    /\ DictGet(self.translation_cache, CacheKey(text)).model_id = self.current_model_id

(***************************************************************************)
(* Translator.translate.  The result carries the new state, the outcome    *)
(* and `sent`, the texts handed to the backend by this call.               *)
(***************************************************************************)
IsFormatted(entry) == IF "formatted" \in DOMAIN entry THEN entry.formatted ELSE FALSE

Result(self, out, sent) == [self |-> self, out |-> out, sent |-> sent]

\* lines 287-315: the four cases of a cache hit
TranslateHit(self, text, apply_formatting) ==
    LET key == CacheKey(text)
        cached == DictGet(self.translation_cache, key)
        formatted == ProcessText(cached.translation, self.formatting_options)
    IN  IF apply_formatting /\ ~IsFormatted(cached)
        THEN IF formatted.kind = "error" THEN Result(self, formatted, << >>)
             ELSE Result([self EXCEPT !.translation_cache =
                             DictPut(@, key, [cached EXCEPT !.translation_formatted = formatted.val,
                                                            !.formatted = TRUE])],
                         formatted, << >>)
        ELSE IF ~apply_formatting /\ IsFormatted(cached)
        THEN IF "translation_raw" \in DOMAIN cached
             THEN Result(self, Ok(cached.translation_raw), << >>)
             ELSE Result(self, Ok(cached.translation), << >>)
        ELSE IF apply_formatting /\ IsFormatted(cached)
        THEN IF "translation_formatted" \in DOMAIN cached
             THEN Result(self, Ok(cached.translation_formatted), << >>)
             ELSE Result(self, formatted, << >>)
        ELSE Result(self, Ok(cached.translation), << >>)

\* lines 317-357: backend call, formatting, store, periodic save and cleanup
\* a miss that stores an entry for the text before it looks at the outcome
\* of the backend
TranslateMiss_StoresFirst(self, text, apply_formatting, now, infer, disk) ==
    LET raw == ModelTranslate(self, text, infer)
        stored == [self EXCEPT
                     !.translation_cache =
                         DictPut(@, CacheKey(text),
                                 NewEntry(self, raw.val, raw.val, apply_formatting, now)),
                     !.cache_operations = @ + 1]
    IN  IF raw.kind = "error" THEN Result(stored, raw, <<text>>)
        ELSE IF apply_formatting
        THEN Result(self, ProcessText(raw.val, self.formatting_options), <<text>>)
        ELSE IF self.cache_enabled
        THEN Result(PeriodicSave(stored, now, disk), raw, <<text>>)
        ELSE Result(self, raw, <<text>>)

TranslateMiss(self, text, apply_formatting, now, infer, disk) ==
    LET raw == ModelTranslate(self, text, infer)
        translation == IF apply_formatting
                       THEN ProcessText(raw.val, self.formatting_options)
                       ELSE raw
        stored == [self EXCEPT
                     !.translation_cache =
                         DictPut(@, CacheKey(text),
                                 NewEntry(self, translation.val, raw.val, apply_formatting, now)),
                     !.cache_operations = @ + 1]
    IN  IF raw.kind = "error" THEN Result(self, raw, <<text>>)
        ELSE IF translation.kind = "error" THEN Result(self, translation, <<text>>)
        ELSE IF self.cache_enabled
        THEN Result(PeriodicSave(stored, now, disk), translation, <<text>>)
        ELSE Result(self, translation, <<text>>)

\* translate that never looks into the cache
Translate_NoLookup(self, text, apply_formatting, now, infer, disk) ==
    IF text = "" THEN Result(self, Ok(EmptyStr), << >>)
    ELSE TranslateMiss(self, text, apply_formatting, now, infer, disk)

Translate(self, text, apply_formatting, now, infer, disk) ==
    IF text = "" THEN Result(self, Ok(EmptyStr), << >>)
    ELSE IF CacheHit(self, text) THEN TranslateHit(self, text, apply_formatting)
    ELSE TranslateMiss(self, text, apply_formatting, now, infer, disk)

\* ApiServer, POST /api/translate on its Translator, for a request with a
\* valid API key: the status of the response it raises, or the translation
ApiTranslate(self, text, apply_formatting, now, infer, disk) ==
    LET r == Translate(self, text, apply_formatting, now, infer, disk)
    IN  IF ~ModelLoaded(self)
        THEN Result(self, Raise("503: Translation model is not loaded"), << >>)
        ELSE IF Len(text) > MAX_TEXT_LENGTH
        THEN Result(self, Raise("400: Text length exceeds maximum limit"), << >>)
        ELSE IF r.out.kind = "error"
        THEN Result(r.self, Raise("500: Internal server error during translation"), r.sent)
        ELSE IF r.out.val.head = "Error:"
        THEN Result(r.self, Raise("500: Error:"), r.sent)
        ELSE r

(***************************************************************************)
(* Translator.translate_batch.                                             *)
(***************************************************************************)
\* lines 392-427: one cached text of the batch
BatchHit(self, text, apply_formatting) ==
    LET key == CacheKey(text)
        cached == DictGet(self.translation_cache, key)
        source == IF "translation_raw" \in DOMAIN cached
                  THEN cached.translation_raw ELSE cached.translation
        trans == ProcessText(source, self.formatting_options)
    IN  IF apply_formatting /\ ~IsFormatted(cached)
        THEN IF trans.kind = "error" THEN Result(self, trans, << >>)
             ELSE Result([self EXCEPT !.translation_cache =
                             DictPut(@, key, [cached EXCEPT !.translation_formatted = trans.val,
                                                            !.formatted = TRUE])],
                         trans, << >>)
        ELSE IF ~apply_formatting /\ IsFormatted(cached)
        THEN Result(self, Ok(source), << >>)
        ELSE IF apply_formatting /\ IsFormatted(cached)
        THEN IF "translation_formatted" \in DOMAIN cached
             THEN Result(self, Ok(cached.translation_formatted), << >>)
             ELSE Result(self, Ok(cached.translation), << >>)
        ELSE Result(self, Ok(cached.translation), << >>)

\* lines 382-438: the pass over the inputs.  translations holds None where a
\* text waits for the backend; uncached_indices are the positions of those.
Scan(self, translations, uncached_indices, err) ==
    [self |-> self, translations |-> translations,
     uncached_indices |-> uncached_indices, err |-> err]

\* a cached text of the pass: its translation is appended, or the formatter's
\* exception ends the pass
ScanHit(acc, hit) ==
    IF hit.out.kind = "error" THEN [acc EXCEPT !.err = hit.out]
    ELSE [acc EXCEPT !.self = hit.self, !.translations = Append(@, hit.out.val)]

\* one iteration of the loop of lines 383-433
ScanOne(acc, text, apply_formatting, i) ==
    IF text = "" THEN [acc EXCEPT !.translations = Append(@, EmptyStr)]
    ELSE IF CacheHit(acc.self, text)
    THEN ScanHit(acc, BatchHit(acc.self, text, apply_formatting))
    ELSE [acc EXCEPT !.translations = Append(@, None),
                     !.uncached_indices = Append(@, i)]

RECURSIVE BatchScan(_, _, _, _)
BatchScan(acc, texts, apply_formatting, i) ==
    IF i > Len(texts) \/ acc.err.kind = "error" THEN acc
    ELSE BatchScan(ScanOne(acc, texts[i], apply_formatting, i), texts, apply_formatting, i + 1)

\* the partition of the inputs into cached and uncached: with the cache
\* disabled every text, the empty ones included, is uncached (lines 434-438)
Partition(self, texts, apply_formatting) ==
    IF self.cache_enabled
    THEN BatchScan(Scan(self, << >>, << >>, Ok(None)), texts, apply_formatting, 1)
    ELSE Scan(self, [i \in DOMAIN texts |-> None], [i \in DOMAIN texts |-> i], Ok(None))

\* lines 453-468: scatter the new results and store them
RECURSIVE Scatter(_, _, _, _, _, _, _, _)
Scatter(self, translations, idxs, texts, raws, news, apply_formatting, now) ==
    IF idxs = << >> THEN [self |-> self, translations |-> translations]
    ELSE LET idx == Head(idxs)
             text == texts[idx]
             stored == IF self.cache_enabled /\ text # ""
                       THEN [self EXCEPT !.translation_cache =
                               DictPut(@, CacheKey(text),
                                       NewEntry(self, Head(news), Head(raws), apply_formatting, now))]
                       ELSE self
         IN  Scatter(stored, [translations EXCEPT ![idx] = Head(news)], Tail(idxs), texts,
                     Tail(raws), Tail(news), apply_formatting, now)

\* the first formatting failure of a list of raw translations, or the list
\* of formatted translations
FormatAll(self, raws) ==
    LET one(i) == ProcessText(raws[i], self.formatting_options)
    IN  IF \E i \in DOMAIN raws : one(i).kind = "error"
        THEN one(CHOOSE i \in DOMAIN raws :
                   /\ one(i).kind = "error"
                   /\ \A j \in 1..(i-1) : one(j).kind = "ok")
        ELSE Ok([i \in DOMAIN raws |-> one(i).val])

\* lines 470-480: the counter grows by the number of uncached texts, with
\* the cache enabled or not; the periodic save and cleanup need it enabled
BatchCount(done, uncached_texts, now, disk) ==
    LET counted == [done.self EXCEPT !.cache_operations = @ + Len(uncached_texts)]
    IN  IF counted.cache_enabled
        THEN Result(PeriodicSave(counted, now, disk), Ok(done.translations), uncached_texts)
        ELSE Result(counted, Ok(done.translations), uncached_texts)

\* lines 444-468: the new translations are formatted, scattered and stored
BatchStore(scan, texts, uncached_texts, raws, news, apply_formatting, now, disk) ==
    IF news.kind = "error" THEN Result(scan.self, news, uncached_texts)
    ELSE BatchCount(Scatter(scan.self, scan.translations, scan.uncached_indices, texts,
                            raws.val, news.val, apply_formatting, now),
                    uncached_texts, now, disk)

\* line 442: the result of the backend for the uncached texts
BatchBackend(scan, texts, uncached_texts, raws, apply_formatting, now, disk) ==
    IF raws.kind = "error" THEN Result(scan.self, raws, uncached_texts)
    ELSE BatchStore(scan, texts, uncached_texts, raws,
                    IF apply_formatting THEN FormatAll(scan.self, raws.val) ELSE raws,
                    apply_formatting, now, disk)

\* lines 440-482 after the pass over the inputs
BatchUncached(scan, texts, uncached_texts, apply_formatting, now, infer, disk) ==
    IF scan.err.kind = "error" THEN Result(scan.self, scan.err, << >>)
    ELSE IF uncached_texts = << >> THEN Result(scan.self, Ok(scan.translations), << >>)
    ELSE BatchBackend(scan, texts, uncached_texts,
                      ModelTranslateBatch(scan.self, uncached_texts, infer),
                      apply_formatting, now, disk)

\* the texts at the uncached positions
UncachedTexts(uncached_indices, texts) ==
    [k \in DOMAIN uncached_indices |-> texts[uncached_indices[k]]]

\* the body of translate_batch for a partition of a non-empty list
BatchOf(scan, texts, apply_formatting, now, infer, disk) ==
    BatchUncached(scan, texts, UncachedTexts(scan.uncached_indices, texts),
                  apply_formatting, now, infer, disk)

TranslateBatch(self, texts, apply_formatting, now, infer, disk) ==
    IF texts = << >> THEN Result(self, Ok(<< >>), << >>)
    ELSE BatchOf(Partition(self, texts, apply_formatting), texts,
                 apply_formatting, now, infer, disk)

(***************************************************************************)
(* Translator.set_cache_enabled, Translator.change_model.                  *)
(***************************************************************************)
SetCacheEnabled(self, enabled, now, disk) ==
    LET s1 == IF enabled /\ ~self.cache_enabled THEN LoadCache(self, now, disk)
              ELSE IF ~enabled /\ self.cache_enabled THEN SaveCache(self, now, disk)
              ELSE self
    IN  Result([s1 EXCEPT !.cache_enabled = enabled], Ok(None), << >>)

\* the checks without the GPU requirement
ValidateModel_NoGpuCheck(self, model_id) ==
    IF model_id \notin DOMAIN self.model_metadata
    THEN "ValueError: Model not found"
    ELSE IF ~self.model_metadata[model_id].downloaded
    THEN "ValueError: Model is not downloaded"
    ELSE ""

\* lines 572-582: the message of the failed check, "" when all pass
ValidateModel(self, model_id) ==
    IF model_id \notin DOMAIN self.model_metadata
    THEN "ValueError: Model not found"
    ELSE IF ~self.model_metadata[model_id].downloaded
    THEN "ValueError: Model is not downloaded"
    ELSE IF self.model_metadata[model_id].gpu_required /\ ~self.gpu_available
    THEN "ValueError: Model requires GPU, but no GPU is available"
    ELSE ""

\* ModelManager.get_model_path: the message of the failure, "" when a path
\* is returned
GetModelPath(self, model_id) ==
    IF model_id \notin DOMAIN self.model_metadata
    THEN "ValueError: Model not found"
    ELSE IF ~self.model_metadata[model_id].downloaded
    THEN "ValueError: Model is not downloaded"
    ELSE ""

\* change_model that does not save the cache of the model it leaves
ChangeModel_NoSave(self, model_id, now, disk, load) ==
    LET changed == ModelChangeModel(self, model_id, load)
        current == [changed.self EXCEPT !.current_model_id = model_id]
        loaded == IF current.cache_enabled
                  THEN LoadCache([current EXCEPT !.translation_cache = EmptyDict], now, disk)
                  ELSE current
    IN  IF ValidateModel(self, model_id) # ""
        THEN Result(self, Raise("RuntimeError: Failed to change model"), << >>)
        ELSE IF GetModelPath(self, model_id) # ""
        THEN Result(self, Raise("RuntimeError: Failed to change model"), << >>)
        ELSE IF changed.out.kind = "error"
        THEN Result(changed.self, Raise("RuntimeError: Failed to change model"), << >>)
        ELSE Result(loaded, Ok(None), << >>)

ChangeModel(self, model_id, now, disk, load) ==
    LET saved == IF self.cache_enabled THEN SaveCache(self, now, disk) ELSE self
        changed == ModelChangeModel(saved, model_id, load)
        current == [changed.self EXCEPT !.current_model_id = model_id]
        loaded == IF current.cache_enabled
                  THEN LoadCache([current EXCEPT !.translation_cache = EmptyDict], now, disk)
                  ELSE current
    IN  IF ValidateModel(self, model_id) # ""
        THEN Result(self, Raise("RuntimeError: Failed to change model"), << >>)
        ELSE IF GetModelPath(saved, model_id) # ""
        THEN Result(saved, Raise("RuntimeError: Failed to change model"), << >>)
        ELSE IF changed.out.kind = "error"
        THEN Result(changed.self, Raise("RuntimeError: Failed to change model"), << >>)
        ELSE Result(loaded, Ok(None), << >>)

(***************************************************************************)
(* set_formatting_options.  The `options` argument is a dict, a sequence   *)
(* of [key, entry] here; a value is written as Python prints it, so that   *)
(* a value that is not a bool can stand next to the two that are.          *)
(***************************************************************************)
PyBools == {"True", "False"}
UnknownOption == "capitalize"

\* dict.update(options) on formatting_options
UpdateOptions(formatting, options) ==
    [o \in DOMAIN formatting |->
        IF DictHas(options, o) THEN DictGet(options, o) = "True" ELSE formatting[o]]

\* the validation loop: the message of the first item it rejects, "" when it
\* rejects none
ValidateOptions(self, options) ==
    LET bad(i) == \/ options[i].key \notin DOMAIN self.formatting_options
                  \/ options[i].entry \notin PyBools
        first == CHOOSE i \in DOMAIN options : bad(i) /\ \A j \in 1..(i - 1) : ~bad(j)
    IN  IF \A i \in DOMAIN options : ~bad(i) THEN ""
        ELSE IF options[first].key \notin DOMAIN self.formatting_options
        THEN "ValueError: Invalid formatting option"
        ELSE "ValueError: Formatting option must be a boolean"

\* an update that takes each item as the loop reaches it, up to the first
\* item the loop rejects
SetFormattingOptions_ItemByItem(self, options) ==
    LET bad(i) == \/ options[i].key \notin DOMAIN self.formatting_options
                  \/ options[i].entry \notin PyBools
        good == SelectSeq([i \in DOMAIN options |-> [key |-> options[i].key,
                                                     entry |-> options[i].entry,
                                                     ok |-> \A j \in 1..i : ~bad(j)]],
                          LAMBDA kv : kv.ok)
        updated == [self EXCEPT !.formatting_options = UpdateOptions(@, good)]
    IN  IF ValidateOptions(self, options) # ""
        THEN Result(updated, Raise("ValueError: Failed to set formatting options"), << >>)
        ELSE Result(updated, Ok(None), << >>)

SetFormattingOptions(self, options) ==
    IF ValidateOptions(self, options) # ""
    THEN Result(self, Raise("ValueError: Failed to set formatting options"), << >>)
    ELSE Result([self EXCEPT !.formatting_options = UpdateOptions(@, options)],
                Ok(None), << >>)

(***************************************************************************)
(* ModelManager: the registry of models.  A method is an operator from the *)
(* registry (the metadata in memory, the model directories, the metadata   *)
(* file) to the registry after the call and the (success, message) pair it *)
(* returns.  disk names the step of the call the environment fails:        *)
(* "save" is _save_metadata, "rmtree" shutil.rmtree, "space" the free      *)
(* space check, "download" snapshot_download.                              *)
(***************************************************************************)
MIN_MODEL_QUALITY == 0
MAX_MODEL_QUALITY == 100
PyStrs == {"'better'"}

Returns(reg, success, message) == [reg |-> reg, success |-> success, message |-> message]

\* _save_metadata at the end of a method that changed the metadata
SaveMetadata(reg, disk, message) ==
    IF disk = "save"
    THEN Returns(reg, FALSE, "RuntimeError: Failed to save model metadata")
    ELSE Returns([reg EXCEPT !.metadata_file = reg.model_metadata], TRUE, message)

DownloadModel(reg, model_id, disk) ==
    IF model_id \notin DOMAIN reg.model_metadata
    THEN Returns(reg, FALSE, "Model not found")
    ELSE IF reg.model_metadata[model_id].downloaded
    THEN Returns(reg, TRUE, "Model is already downloaded")
    ELSE IF reg.model_metadata[model_id].gpu_required /\ ~reg.gpu_available
    THEN Returns(reg, FALSE, "Model requires GPU, but no GPU is available")
    ELSE IF disk = "space"
    THEN Returns(reg, FALSE, "Not enough free space")
    ELSE IF disk = "download"
    THEN Returns(reg, FALSE, "Error downloading model")
    ELSE SaveMetadata([reg EXCEPT !.model_dirs = @ \cup {model_id},
                                  !.model_metadata[model_id].downloaded = TRUE,
                                  !.model_metadata[model_id].local_path = model_id],
                      disk, "Successfully downloaded model")

\* delete_model without the check of the default model
DeleteModel_NoDefaultCheck(reg, model_id, disk) ==
    IF model_id \notin DOMAIN reg.model_metadata
    THEN Returns(reg, FALSE, "Model not found")
    ELSE IF model_id \notin reg.model_dirs
    THEN Returns(reg, FALSE, "Model not found")
    ELSE IF disk = "rmtree"
    THEN Returns(reg, FALSE, "Error deleting model")
    ELSE SaveMetadata([reg EXCEPT !.model_dirs = @ \ {model_id},
                                  !.model_metadata[model_id].downloaded = FALSE,
                                  !.model_metadata[model_id].local_path = "None"],
                      disk, "Successfully deleted model")

DeleteModel(reg, model_id, disk) ==
    IF model_id \notin DOMAIN reg.model_metadata
    THEN Returns(reg, FALSE, "Model not found")
    ELSE IF model_id = DEFAULT_MODEL_ID
    THEN Returns(reg, FALSE, "Cannot delete default model")
    ELSE IF model_id \notin reg.model_dirs
    THEN Returns(reg, FALSE, "Model not found")
    ELSE IF disk = "rmtree"
    THEN Returns(reg, FALSE, "Error deleting model")
    ELSE SaveMetadata([reg EXCEPT !.model_dirs = @ \ {model_id},
                                  !.model_metadata[model_id].downloaded = FALSE,
                                  !.model_metadata[model_id].local_path = "None"],
                      disk, "Successfully deleted model")

\* update_model_quality; a description is written as Python prints it:
\* "None", a str in quotes, or a value of another type
UpdateModelQuality(reg, model_id, quality, description, disk) ==
    LET rated == [reg EXCEPT !.model_metadata[model_id].quality = quality]
        described == [rated EXCEPT !.model_metadata[model_id].quality_description = description]
    IN  IF model_id \notin DOMAIN reg.model_metadata
        THEN Returns(reg, FALSE, "Model not found")
        ELSE IF quality < MIN_MODEL_QUALITY \/ quality > MAX_MODEL_QUALITY
        THEN Returns(reg, FALSE, "Quality must be between 0 and 100")
        ELSE IF description = "None"
        THEN SaveMetadata(rated, disk, "Successfully updated quality rating")
        ELSE IF description \notin PyStrs
        THEN Returns(rated, FALSE, "Description must be a string")
        ELSE SaveMetadata(described, disk, "Successfully updated quality rating")

(***************************************************************************)
(* State: the fields of the Translator, of its TranslationModel, the       *)
(* registry metadata it reads, the cache directory and the clock.          *)
(***************************************************************************)
VARIABLES
    current_model_id,    \* Translator.current_model_id
    cache_enabled,       \* Translator.cache_enabled
    translation_cache,   \* Translator.translation_cache
    cache_operations,    \* Translator.cache_operations
    formatting_options,  \* Translator.formatting_options
    model_id,            \* TranslationModel.model_id
    model,               \* TranslationModel.model: the id of the loaded weights
    tokenizer,           \* TranslationModel.tokenizer: the id of the loaded tokenizer
    model_metadata,      \* ModelManager.model_metadata
    gpu_available,       \* Translator.gpu_available
    files,               \* cache file of each model id
    baks,                \* its .bak file
    now,                 \* time.time(), in days
    executing,           \* of each thread of the GUI: the Translator method it is in
    model_dirs,          \* the ids whose directory exists under ModelManager.models_dir
    metadata_file,       \* the content of models_metadata.json
    added_since_cleanup, \* history: entries stored since _cleanup_cache last ran
    api_translator,      \* ApiServer.translator: << >> until the server is created
    in_flight            \* of each thread: the locals of the method it is in

vars == <<current_model_id, cache_enabled, translation_cache, cache_operations,
          formatting_options, model_id, model, tokenizer, model_metadata,
          gpu_available, files, baks, now, executing, model_dirs, metadata_file,
          added_since_cleanup, api_translator, in_flight>>

\* what the Translator of the GUI does not touch
aux == <<added_since_cleanup, api_translator, in_flight>>

Self == [current_model_id |-> current_model_id,
         cache_enabled |-> cache_enabled,
         translation_cache |-> translation_cache,
         cache_operations |-> cache_operations,
         formatting_options |-> formatting_options,
         model_id |-> model_id,
         model |-> model,
         tokenizer |-> tokenizer,
         model_metadata |-> model_metadata,
         gpu_available |-> gpu_available,
         files |-> files,
         baks |-> baks]

\* the fields after a call
Assigns(self) ==
    /\ current_model_id' = self.current_model_id
    /\ cache_enabled' = self.cache_enabled
    /\ translation_cache' = self.translation_cache
    /\ cache_operations' = self.cache_operations
    /\ formatting_options' = self.formatting_options
    /\ model_id' = self.model_id
    /\ model' = self.model
    /\ tokenizer' = self.tokenizer
    /\ model_metadata' = self.model_metadata
    /\ gpu_available' = self.gpu_available
    /\ files' = self.files
    /\ baks' = self.baks

\* the state after a call made where no other thread is at work
Becomes(self) ==
    /\ Assigns(self)
    /\ UNCHANGED <<now, executing, model_dirs, metadata_file, aux>>

InferOutcomes == {"ok", "error"}
SaveFailures == {"makedirs", "write"}
SaveOutcomes == {"ok"} \cup SaveFailures
LoadFailures == {"remove", "rename"}
DiskOutcomes == {"ok"} \cup SaveFailures \cup LoadFailures
LoadOutcomes == {"ok", "tokenizer", "model", "device"}

\* the dicts a caller passes to set_formatting_options: up to MaxOptions
\* items with distinct keys, known or not, with values that are bools or not
OptionDicts ==
    LET items == [key : OptionNames \cup {UnknownOption}, entry : PyBools \cup {"1"}]
    IN  {d \in UNION {[1..n -> items] : n \in 0..MaxOptions} :
            \A i, j \in DOMAIN d : d[i].key = d[j].key => i = j}

BatchesOf(texts) == UNION {[1..n -> texts] : n \in 0..MaxBatch}
Batches == BatchesOf(Texts)

\* The batches the translate_batch step draws from.  A batch that holds a
\* whitespace-only text is rejected by _validate_batch whatever else it
\* holds, and the call leaves every field as it was; the properties below
\* range over all of Batches.
AcceptableBatches == BatchesOf(Texts \ BlankTexts)

\* the arguments of update_model_quality: scores on both sides of both ends
\* of the range; no description, a str, a value that is not a str
Qualities == {MIN_MODEL_QUALITY - 1, MIN_MODEL_QUALITY, MAX_MODEL_QUALITY, MAX_MODEL_QUALITY + 1}
Descriptions == {"None", "5"} \cup PyStrs

\* the texts of the specification that switches between two models
GpuTexts == {"", "a"}

\* The threads of the GUI that call the one Translator of MainWindow: the Tk
\* main thread, which runs the handlers of the widgets, and the worker
\* thread each panel starts.
Threads == {"main", "translator_panel", "batch_translator_panel", "model_manager_panel"}

\* the default metadata of the registry; of the two GPU models one is
\* downloaded and one is not
DefaultMetadata ==
    [m \in KnownModels |->
        [downloaded |-> (m # NLLB_MODEL_ID),
         gpu_required |-> (m # DEFAULT_MODEL_ID),
         default |-> (m = DEFAULT_MODEL_ID),
         quality |-> CASE m = DEFAULT_MODEL_ID -> 85 [] m = M2M_MODEL_ID -> 80 [] OTHER -> 90,
         quality_description |-> "initial",
         local_path |-> "None"]]

\* Translator.__init__ with no model_id, on a cache directory without files
Constructed(gpu) ==
    /\ current_model_id = DEFAULT_MODEL_ID
    /\ cache_enabled = TRUE
    /\ translation_cache = EmptyDict
    /\ cache_operations = 0
    /\ formatting_options = [o \in OptionNames |-> TRUE]
    /\ model_id = DEFAULT_MODEL_ID
    /\ model = DEFAULT_MODEL_ID
    /\ tokenizer = DEFAULT_MODEL_ID
    /\ gpu_available = gpu
    /\ model_metadata = DefaultMetadata
    /\ files = [m \in KnownModels |-> NoFile]
    /\ baks = [m \in KnownModels |-> NoFile]
    /\ now = 0
    /\ executing = [t \in Threads |-> "idle"]
    /\ model_dirs = {m \in KnownModels : DefaultMetadata[m].downloaded}
    /\ metadata_file = DefaultMetadata
    /\ added_since_cleanup = 0
    /\ api_translator = << >>
    /\ in_flight = [t \in Threads |-> << >>]

Init == Constructed(FALSE)
InitGpu == Constructed(TRUE)

\* An outcome of the environment is drawn only where the call can notice it:
\* an inference error when the call hands texts to the backend, a failed
\* write when the call can reach _save_cache, a failed removal or rename
\* when it can reach _load_cache.  r is the result of the call in an
\* environment without failures.
ReachesSave(r) ==
    /\ cache_enabled
    /\ r.out.kind = "ok"
    /\ cache_operations + Len(r.sent) >= CACHE_SAVE_INTERVAL

\* the failures a translation can meet: <<infer, disk>>
TranslateFailures(r) ==
    (IF r.sent # << >> THEN {<<"error", "ok">>} ELSE {})
    \cup (IF ReachesSave(r) THEN {<<"ok", disk>> : disk \in SaveFailures} ELSE {})
DiskChoices(reaches_save, reaches_load) ==
    {"ok"} \cup (IF reaches_save THEN SaveFailures ELSE {})
           \cup (IF reaches_load THEN LoadFailures ELSE {})

translate(texts) ==
    \E text \in texts, apply_formatting \in BOOLEAN :
        \E r0 \in {Translate(Self, text, apply_formatting, now, "ok", "ok")} :
            \/ Becomes(r0.self)
            \/ \E env \in TranslateFailures(r0) :
                    Becomes(Translate(Self, text, apply_formatting, now, env[1], env[2]).self)

translate_batch(batches) ==
    \E texts \in batches, apply_formatting \in BOOLEAN :
        \E r0 \in {TranslateBatch(Self, texts, apply_formatting, now, "ok", "ok")} :
            /\ r0.self.cache_operations <= MaxOps
            /\ \/ Becomes(r0.self)
               \/ \E env \in TranslateFailures(r0) :
                     Becomes(TranslateBatch(Self, texts, apply_formatting, now, env[1], env[2]).self)

clear_cache ==
    \E disk \in {"ok", "remove"} :
        \E cleared \in {ClearCache(Self, disk)} : Becomes(cleared)

set_cache_enabled ==
    \E enabled \in BOOLEAN, disk \in DiskChoices(cache_enabled, FALSE) :
        Becomes(SetCacheEnabled(Self, enabled, now, disk).self)

change_model ==
    \E new_id \in RequestedModels, disk \in DiskChoices(cache_enabled, cache_enabled),
       load \in LoadOutcomes :
        /\ (disk # "ok" \/ load # "ok") => ValidateModel(Self, new_id) = ""
        /\ Becomes(ChangeModel(Self, new_id, now, disk, load).self)

unload ==
    \E unloaded \in {ModelUnload(Self)} : Becomes(unloaded)

set_formatting_options ==
    \E options \in OptionDicts :
        Becomes(SetFormattingOptions(Self, options).self)

\* time passes between calls
tick ==
    /\ now < MaxTime
    /\ now' = now + 1
    /\ UNCHANGED <<current_model_id, cache_enabled, translation_cache, cache_operations,
                   formatting_options, model_id, model, tokenizer, model_metadata,
                   gpu_available, files, baks, executing, model_dirs, metadata_file, aux>>

\* the cache file of the current model is damaged from outside: its bytes
\* stop being JSON, or it grows beyond MAX_CACHE_SIZE_GB
damage_file ==
    \E damaged \in {CorruptFile, OversizeFile} :
        /\ files[current_model_id].kind = "json"
        /\ files' = [files EXCEPT ![current_model_id] = damaged]
        /\ UNCHANGED <<current_model_id, cache_enabled, translation_cache, cache_operations,
                       formatting_options, model_id, model, tokenizer, model_metadata,
                       gpu_available, baks, now, executing, model_dirs, metadata_file, aux>>

\* what an entry of a cache file can be after the file was edited from
\* outside: not an object, an object without its timestamp, an object whose
\* timestamp is not a number
MalformedEntries(entry) ==
    {JsonString,
     [f \in DOMAIN entry \ {"timestamp"} |-> entry[f]],
     [entry EXCEPT !.timestamp = NotANumber]}

\* the current model's cache file is edited from outside: the entry of one
\* text is overwritten or added; the file stays JSON
damage_entry ==
    /\ files[current_model_id].kind = "json"
    /\ \A j \in DOMAIN files[current_model_id].data :
          /\ IsDict(files[current_model_id].data[j].entry)
          /\ HasRequiredFields(files[current_model_id].data[j].entry)
          /\ files[current_model_id].data[j].entry.timestamp # NotANumber
    /\ \E i \in DOMAIN files[current_model_id].data, text \in Texts \ (BlankTexts \cup {""}) :
          \E malformed \in MalformedEntries(files[current_model_id].data[i].entry) :
             files' = [files EXCEPT ![current_model_id].data = DictPut(@, CacheKey(text), malformed)]
    /\ UNCHANGED <<current_model_id, cache_enabled, translation_cache, cache_operations,
                   formatting_options, model_id, model, tokenizer, model_metadata,
                   gpu_available, baks, now, executing, model_dirs, metadata_file, aux>>

\* a machine without GPU: the default model is the only one that loads
Next ==
    \/ translate(Texts)
    \/ translate_batch(AcceptableBatches)
    \/ clear_cache
    \/ set_cache_enabled
    \/ change_model
    \/ unload
    \/ tick
    \/ damage_file

Spec == Init /\ [][Next]_vars

\* a machine with GPU: two models to switch between, one text, no clock;
\* the backend stays loaded
NextGpu ==
    \/ translate(GpuTexts)
    \/ translate_batch(BatchesOf(GpuTexts))
    \/ clear_cache
    \/ set_cache_enabled
    \/ change_model

SpecGpu == InitGpu /\ [][NextGpu]_vars

\* single translations on a disk that fails and is damaged: the flushes and
\* the loads
NextFlush ==
    \/ translate(Texts)
    \/ clear_cache
    \/ set_cache_enabled
    \/ change_model
    \/ tick
    \/ damage_file

SpecFlush == Init /\ [][NextFlush]_vars

\* cache files edited from outside, and the loads that read them
NextLoad ==
    \/ translate(Texts)
    \/ set_cache_enabled
    \/ change_model
    \/ tick
    \/ damage_entry

SpecLoad == Init /\ [][NextLoad]_vars

\* the formatting options change between translations
NextOptions ==
    \/ set_formatting_options
    \/ translate(GpuTexts)
    \/ clear_cache
    \/ set_cache_enabled

SpecOptions == Init /\ [][NextOptions]_vars

\* the registry of the ModelManager as a record, and the state after one of
\* its methods
Registry == [model_metadata |-> model_metadata, model_dirs |-> model_dirs,
             metadata_file |-> metadata_file, gpu_available |-> gpu_available]

RegistryBecomes(reg) ==
    /\ model_metadata' = reg.model_metadata
    /\ model_dirs' = reg.model_dirs
    /\ metadata_file' = reg.metadata_file
    /\ UNCHANGED <<current_model_id, cache_enabled, translation_cache, cache_operations,
                   formatting_options, model_id, model, tokenizer, gpu_available,
                   files, baks, now, executing, aux>>

download_model ==
    \E id \in RequestedModels, disk \in {"ok", "space", "download", "save"} :
        \E r \in {DownloadModel(Registry, id, disk)} : RegistryBecomes(r.reg)

delete_model ==
    \E id \in RequestedModels, disk \in {"ok", "rmtree", "save"} :
        \E r \in {DeleteModel(Registry, id, disk)} : RegistryBecomes(r.reg)

\* the ratings of one GPU model are left as they are
update_model_quality ==
    \E id \in RequestedModels \ {NLLB_MODEL_ID}, quality \in Qualities,
       description \in Descriptions, disk \in {"ok", "save"} :
        \E r \in {UpdateModelQuality(Registry, id, quality, description, disk)} :
            RegistryBecomes(r.reg)

NextRegistry ==
    \/ download_model
    \/ delete_model
    \/ update_model_quality

SpecRegistry == InitGpu /\ [][NextRegistry]_vars

(***************************************************************************)
(* The cleanup pass.  _cleanup_cache is called by _save_cache when the     *)
(* cache is above its limit (l.175-177) and by translate when the counter  *)
(* reaches CACHE_CLEANUP_INTERVAL (l.349-352).  added_since_cleanup counts *)
(* the entries stored since the last of these calls.                       *)
(***************************************************************************)
\* does a translate that stores `stored` entries call _cleanup_cache?
CleanupRuns(self, after, stored, disk) ==
    LET counted == self.cache_operations + stored
        saves == counted >= CACHE_SAVE_INTERVAL
    IN  /\ self.cache_enabled
        /\ stored > 0
        /\ \/ saves /\ disk # "makedirs"
                    /\ Cardinality(DictKeys(self.translation_cache)
                                   \cup {CacheKey(stored_text) : stored_text \in after}) > CACHE_LIMIT_DEFAULT
           \/ (IF saves /\ disk = "ok" THEN 0 ELSE counted) >= CACHE_CLEANUP_INTERVAL

\* translate, with the history of the cleanup pass
translate_counted ==
    \E text \in Texts, disk \in SaveOutcomes :
        \E r \in {Translate(Self, text, FALSE, now, "ok", disk)} :
            /\ disk # "ok" => ReachesSave(r)
            /\ added_since_cleanup < CACHE_CLEANUP_INTERVAL
            /\ Assigns(r.self)
            /\ added_since_cleanup' =
                  IF ~cache_enabled \/ r.sent = << >> \/ r.out.kind = "error"
                  THEN added_since_cleanup
                  ELSE IF CleanupRuns(Self, {text}, 1, disk) THEN 0
                  ELSE added_since_cleanup + 1
            /\ UNCHANGED <<now, executing, model_dirs, metadata_file, api_translator, in_flight>>

\* with the two methods that never flush
NextCleanup ==
    \/ translate_counted
    \/ clear_cache
    \/ tick

SpecCleanup == Init /\ [][NextCleanup]_vars

(***************************************************************************)
(* The API server.  ServerPanel._start_server creates the ApiServer, whose *)
(* __init__ creates a Translator of its own (api_server.py l.146); the     *)
(* panels of the GUI share the Translator of the MainWindow.  Both are of  *)
(* the default model and _get_cache_path gives them the same file.         *)
(***************************************************************************)
\* Translator.__init__ with no model_id, on the cache directory as it is
NewTranslator(gpu, cache_files, bak_files, time, disk) ==
    LoadCache([current_model_id |-> DEFAULT_MODEL_ID,
               cache_enabled |-> TRUE,
               translation_cache |-> EmptyDict,
               cache_operations |-> 0,
               formatting_options |-> [o \in OptionNames |-> TRUE],
               model_id |-> DEFAULT_MODEL_ID,
               model |-> DEFAULT_MODEL_ID,
               tokenizer |-> DEFAULT_MODEL_ID,
               model_metadata |-> DefaultMetadata,
               gpu_available |-> gpu,
               files |-> cache_files,
               baks |-> bak_files], time, disk)

\* the Translator of the ApiServer, on the cache directory of the process
ServerSelf == [api_translator[1] EXCEPT !.files = files, !.baks = baks]

\* the state after a call on the Translator of the ApiServer
ServerBecomes(self) ==
    /\ api_translator' = <<[self EXCEPT !.files = << >>, !.baks = << >>]>>
    /\ files' = self.files
    /\ baks' = self.baks
    /\ UNCHANGED <<current_model_id, cache_enabled, translation_cache, cache_operations,
                   formatting_options, model_id, model, tokenizer, model_metadata,
                   gpu_available, now, executing, model_dirs, metadata_file,
                   added_since_cleanup, in_flight>>

\* ServerPanel._start_server: the ApiServer is created once
start_server ==
    /\ api_translator = << >>
    /\ \E disk \in {"ok", "rename"} :
          ServerBecomes(NewTranslator(gpu_available, files, baks, now, disk))

\* POST /api/translate
api_translate ==
    /\ api_translator # << >>
    /\ \E text \in Texts, apply_formatting \in BOOLEAN, disk \in SaveOutcomes :
          \E r \in {ApiTranslate(ServerSelf, text, apply_formatting, now, "ok", disk)} :
             ServerBecomes(r.self)

NextServer ==
    \/ start_server
    \/ api_translate
    \/ translate(Texts)
    \/ set_cache_enabled
    \/ tick

SpecServer == Init /\ [][NextServer]_vars

(***************************************************************************)
(* The GUI.  A handler runs on the main thread; the three handlers below   *)
(* start a worker thread that calls the Translator, and the two cache      *)
(* handlers call it on the main thread itself.  A step takes a thread into *)
(* a method or out of it; the effect of the method on the Translator is    *)
(* taken where the thread leaves it.                                       *)
(***************************************************************************)
\* a handler on the main thread takes an idle thread into a method
Enters(thread, method) ==
    /\ executing' = [executing EXCEPT ![thread] = method]
    /\ UNCHANGED <<current_model_id, cache_enabled, translation_cache, cache_operations,
                   formatting_options, model_id, model, tokenizer, model_metadata,
                   gpu_available, files, baks, now, model_dirs, metadata_file, aux>>

\* a thread leaves the method it is in
Leaves(thread, self) ==
    /\ executing' = [executing EXCEPT ![thread] = "idle"]
    /\ Assigns(self)
    /\ UNCHANGED <<now, model_dirs, metadata_file, aux>>

\* TranslatorPanel._translate: the button is disabled until the worker is done
TranslatorPanel_translate ==
    /\ executing["main"] = "idle"
    /\ executing["translator_panel"] = "idle"
    /\ Enters("translator_panel", "translate")

translate_task ==
    /\ executing["translator_panel"] = "translate"
    /\ \E text \in GpuTexts \ {""}, apply_formatting \in BOOLEAN, infer \in InferOutcomes :
          Leaves("translator_panel",
                 Translate(Self, text, apply_formatting, now, infer, "ok").self)

\* BatchTranslatorPanel._translate_batch: its worker calls translate for one
\* text after the other, with the default apply_formatting
BatchTranslatorPanel_translate_batch ==
    /\ executing["main"] = "idle"
    /\ executing["batch_translator_panel"] = "idle"
    /\ Enters("batch_translator_panel", "translate")

batch_translate_task ==
    /\ executing["batch_translator_panel"] = "translate"
    /\ \E text \in GpuTexts \ {""}, infer \in InferOutcomes :
          Leaves("batch_translator_panel", Translate(Self, text, TRUE, now, infer, "ok").self)

\* ModelManagerPanel._select_model
ModelManagerPanel_select_model ==
    /\ executing["main"] = "idle"
    /\ executing["model_manager_panel"] = "idle"
    /\ Enters("model_manager_panel", "change_model")

ModelManagerPanel_change_model_thread ==
    /\ executing["model_manager_panel"] = "change_model"
    /\ \E new_id \in RequestedModels :
          Leaves("model_manager_panel", ChangeModel(Self, new_id, now, "ok", "ok").self)

\* TranslatorPanel._clear_cache, on the main thread
TranslatorPanel_clear_cache ==
    IF executing["main"] = "idle"
    THEN Enters("main", "clear_cache")
    ELSE /\ executing["main"] = "clear_cache"
         /\ Leaves("main", ClearCache(Self, "ok"))

\* TranslatorPanel._toggle_cache, on the main thread
TranslatorPanel_toggle_cache ==
    IF executing["main"] = "idle"
    THEN Enters("main", "set_cache_enabled")
    ELSE /\ executing["main"] = "set_cache_enabled"
         /\ \E enabled \in BOOLEAN :
               Leaves("main", SetCacheEnabled(Self, enabled, now, "ok").self)

NextThreads ==
    \/ TranslatorPanel_translate
    \/ translate_task
    \/ BatchTranslatorPanel_translate_batch
    \/ batch_translate_task
    \/ ModelManagerPanel_select_model
    \/ ModelManagerPanel_change_model_thread
    \/ TranslatorPanel_clear_cache
    \/ TranslatorPanel_toggle_cache

SpecThreads == Init /\ [][NextThreads]_vars

(***************************************************************************)
(* translate in the worker of the TranslatorPanel while change_model runs  *)
(* in the worker of the ModelManagerPanel.  Neither method takes a lock,   *)
(* so the threads interleave between the statements of the two methods:    *)
(* translate between the backend call (l.319) and the store (l.329-338),   *)
(* change_model between self.model.change_model (l.592) and the assignment *)
(* of current_model_id (l.593).                                            *)
(***************************************************************************)
\* translate up to l.319: a cache hit returns, a miss calls the backend and
\* holds translation_raw in a local
translate_calls_backend ==
    /\ executing["translator_panel"] = "translate"
    /\ \E text \in GpuTexts \ {""} :
          IF CacheHit(Self, text) \/ ~ModelLoaded(Self)
          THEN Leaves("translator_panel", Translate(Self, text, FALSE, now, "ok", "ok").self)
          ELSE /\ executing' = [executing EXCEPT !["translator_panel"] = "translate_store"]
               /\ in_flight' = [in_flight EXCEPT !["translator_panel"] =
                                   <<[text |-> text,
                                      translation_raw |-> ModelTranslate(Self, text, "ok").val]>>]
               /\ UNCHANGED <<current_model_id, cache_enabled, translation_cache,
                              cache_operations, formatting_options, model_id, model,
                              tokenizer, model_metadata, gpu_available, files, baks, now,
                              model_dirs, metadata_file, added_since_cleanup, api_translator>>

\* translate from l.322, with apply_formatting False: the entry is stored
\* under the current_model_id of this moment
translate_stores ==
    /\ executing["translator_panel"] = "translate_store"
    /\ \E local \in {in_flight["translator_panel"][1]} :
          \E stored \in {[Self EXCEPT
                            !.translation_cache =
                                DictPut(@, CacheKey(local.text),
                                        NewEntry(Self, local.translation_raw,
                                                 local.translation_raw, FALSE, now)),
                            !.cache_operations = @ + 1]} :
             Assigns(IF cache_enabled THEN PeriodicSave(stored, now, "ok") ELSE Self)
    /\ executing' = [executing EXCEPT !["translator_panel"] = "idle"]
    /\ in_flight' = [in_flight EXCEPT !["translator_panel"] = << >>]
    /\ UNCHANGED <<now, model_dirs, metadata_file, added_since_cleanup, api_translator>>

\* change_model up to l.592: the checks, the flush and the change of the
\* backend; a call that raises leaves the method
change_model_swaps_backend ==
    /\ executing["model_manager_panel"] = "change_model"
    /\ \E new_id \in KnownModels :
          \E r \in {ChangeModel(Self, new_id, now, "ok", "ok")} :
             IF r.out.kind = "error"
             THEN Leaves("model_manager_panel", r.self)
             ELSE /\ Assigns([SaveCache(Self, now, "ok") EXCEPT
                                 !.model_id = r.self.model_id,
                                 !.model = r.self.model,
                                 !.tokenizer = r.self.tokenizer])
                  /\ executing' = [executing EXCEPT !["model_manager_panel"] = "change_model_id"]
                  /\ in_flight' = [in_flight EXCEPT !["model_manager_panel"] = <<new_id>>]
                  /\ UNCHANGED <<now, model_dirs, metadata_file, added_since_cleanup,
                                 api_translator>>

\* change_model from l.593: current_model_id, then the cache of the new model
change_model_sets_id ==
    /\ executing["model_manager_panel"] = "change_model_id"
    /\ \E current \in {[Self EXCEPT !.current_model_id = in_flight["model_manager_panel"][1]]} :
          Assigns(IF cache_enabled
                  THEN LoadCache([current EXCEPT !.translation_cache = EmptyDict], now, "ok")
                  ELSE current)
    /\ executing' = [executing EXCEPT !["model_manager_panel"] = "idle"]
    /\ in_flight' = [in_flight EXCEPT !["model_manager_panel"] = << >>]
    /\ UNCHANGED <<now, model_dirs, metadata_file, added_since_cleanup, api_translator>>

NextRace ==
    \/ TranslatorPanel_translate
    \/ translate_calls_backend
    \/ translate_stores
    \/ ModelManagerPanel_select_model
    \/ change_model_swaps_backend
    \/ change_model_sets_id
    \/ TranslatorPanel_toggle_cache

SpecRace == InitGpu /\ [][NextRace]_vars

(***************************************************************************)
(* Properties.  A property about a call is stated on the method applied to *)
(* the current state, for every argument and every outcome of the          *)
(* environment; a property about a sequence of calls on the methods        *)
(* applied one after the other.                                            *)
(***************************************************************************)
NonEmptyTexts == Texts \ {""}
Later == now..MaxTime
KeptEntry(self, text) == DictHas(self.translation_cache, CacheKey(text))

\* the calls that may come between two translations of one text: none, or a
\* translate or translate_batch of other texts
Between(self, text, t) ==
    {self}
    \cup {Translate(self, u, g, t, "ok", disk).self :
            u \in Texts \ {text}, g \in BOOLEAN, disk \in {"ok", "write"}}
    \cup {TranslateBatch(self, <<u>>, g, t, "ok", disk).self :
            u \in Texts \ {text}, g \in BOOLEAN, disk \in {"ok", "write"}}

\* C1: with the cache enabled and the backend loaded, once translate(T, f)
\* returned r, the next translate(T, f) under the same model hands nothing to
\* the backend and returns r, as long as T's entry was not evicted; other
\* texts may be translated in between.
C1_CacheHitReturnsSame ==
    \A text \in NonEmptyTexts, f \in BOOLEAN, disk \in SaveOutcomes :
        LET r1 == Translate(Self, text, f, now, "ok", disk)
        IN  (cache_enabled /\ ModelLoaded(Self) /\ r1.out.kind = "ok"
                /\ KeptEntry(r1.self, text))
            => \A t \in Later : \A mid \in Between(r1.self, text, t) :
                 KeptEntry(mid, text)
                 => LET r2 == Translate(mid, text, f, t, "ok", "ok")
                    IN  r2.sent = << >> /\ r2.out = r1.out

\* C1 witness: a text was translated and is held in the cache of the loaded,
\* current model; translating it again hands nothing to the backend
C1_Witness ==
    \E text \in NonEmptyTexts :
        /\ cache_enabled /\ ModelLoaded(Self) /\ CacheHit(Self, text)
        /\ cache_operations > 0
        /\ Translate(Self, text, FALSE, now, "ok", "ok").sent = << >>
        /\ Translate(Self, text, FALSE, now, "ok", "ok").out.kind = "ok"

\* C2: with the cache enabled, after translate(T, False) returned the raw
\* text R, translate(T, True) returns formatter(R) without a backend call and
\* a following translate(T, False) returns R, again without a backend call.
C2_RawThenFormatted ==
    \A text \in NonEmptyTexts :
        LET r1 == Translate(Self, text, FALSE, now, "ok", "ok")
            r2 == Translate(r1.self, text, TRUE, now, "ok", "ok")
            r3 == Translate(r2.self, text, FALSE, now, "ok", "ok")
        IN  (cache_enabled /\ r1.out.kind = "ok" /\ KeptEntry(r1.self, text))
            => /\ r2.sent = << >>
               /\ r2.out = ProcessTextBody(r1.out.val, formatting_options)
               /\ r3.sent = << >>
               /\ r3.out = r1.out

\* translate applied to each text of a list in turn
RECURSIVE Elementwise(_, _, _, _)
Elementwise(self, texts, apply_formatting, t) ==
    IF texts = << >> THEN << >>
    ELSE LET r == Translate(self, Head(texts), apply_formatting, t, "ok", "ok")
         IN  <<r.out>> \o Elementwise(r.self, Tail(texts), apply_formatting, t)

\* C3: for every list of texts, cache state and cache setting,
\* translate_batch(texts, f) returns a list as long as texts whose i-th
\* element is what translate(texts[i], f) returns.
C3_BatchEqualsElementwise ==
    \A texts \in Batches, f \in BOOLEAN :
        LET each == Elementwise(Self, texts, f, now)
            batch == TranslateBatch(Self, texts, f, now, "ok", "ok")
        IN  (\A i \in DOMAIN texts : each[i].kind = "ok")
            => /\ batch.out.kind = "ok"
               /\ Len(batch.out.val) = Len(texts)
               /\ \A i \in DOMAIN texts : batch.out.val[i] = each[i].val

\* an entry of the text labelled with the model id, in memory or in the
\* cache file of that model
HasEntryOf(self, text, mid) ==
    \/ /\ KeptEntry(self, text)
       /\ DictGet(self.translation_cache, CacheKey(text)).model_id = mid
    \/ /\ mid \in DOMAIN self.files
       /\ self.files[mid].kind = "json"
       /\ DictHas(self.files[mid].data, CacheKey(text))
       /\ DictGet(self.files[mid].data, CacheKey(text)).model_id = mid

\* C4: after translate(T, f) under model A and a successful change_model(B)
\* with B different from A, the next translate(T, g) hands T to the backend
\* again, whatever is cached for T under A, provided no entry of T made under
\* B is held in memory or in B's cache file.
C4_NoCrossModelHit ==
    \A text \in GpuTexts \ {""}, f \in BOOLEAN, g \in BOOLEAN,
       new_id \in RequestedModels \ {current_model_id},
       disk \in DiskOutcomes :
        LET r1 == Translate(Self, text, f, now, "ok", disk)
            r2 == ChangeModel(r1.self, new_id, now, disk, "ok")
            r3 == Translate(r2.self, text, g, now, "ok", "ok")
        IN  (r2.out.kind = "ok" /\ ~HasEntryOf(r1.self, text, new_id))
            => r3.sent = <<text>>

\* C4 witness: T is cached under the current model A, another model B loads,
\* and after the switch T goes to the backend again
C4_Witness ==
    \E text \in GpuTexts \ {""}, new_id \in RequestedModels \ {current_model_id} :
        LET r2 == ChangeModel(Self, new_id, now, "ok", "ok")
        IN  /\ CacheHit(Self, text)
            /\ r2.out.kind = "ok"
            /\ r2.self.current_model_id = new_id
            /\ r2.self.cache_enabled
            /\ KeptEntry(r2.self, text)
            /\ Translate(r2.self, text, TRUE, now, "ok", "ok").sent = <<text>>

\* C5: after clear_cache() the in-memory cache is empty and, on a disk that
\* lets files be removed, the current model's cache file and its .bak are
\* gone; the next translate of any non-empty text hands it to the backend.
C5_ClearThenMiss ==
    \A rm \in {"ok", "remove"} :
        LET cleared == ClearCache(Self, rm)
        IN  /\ cleared.translation_cache = EmptyDict
            /\ rm = "ok" => /\ cleared.files[current_model_id] = NoFile
                            /\ cleared.baks[current_model_id] = NoFile
            /\ \A text \in NonEmptyTexts, f \in BOOLEAN, t \in Later,
                  infer \in InferOutcomes, disk \in SaveOutcomes :
                   Translate(cleared, text, f, t, infer, disk).sent = <<text>>

\* C5 witness: a text is cached, the cache file and its .bak exist, and
\* after clear_cache the text goes to the backend again
C5_Witness ==
    \E text \in NonEmptyTexts :
        /\ CacheHit(Self, text)
        /\ files[current_model_id] # NoFile
        /\ baks[current_model_id] # NoFile
        /\ Translate(Self, text, FALSE, now, "ok", "ok").sent = << >>
        /\ Translate(ClearCache(Self, "ok"), text, FALSE, now, "ok", "ok").sent = <<text>>

\* C6: an empty string never reaches the cache or the backend: translate("")
\* returns "" and, in translate_batch, every empty string yields "" at its
\* position and is neither handed to the backend nor cached, with the cache
\* enabled or disabled.
C6_EmptyShortCircuits ==
    /\ \A f \in BOOLEAN :
         LET r == Translate(Self, "", f, now, "ok", "ok")
         IN  r.out = Ok(EmptyStr) /\ r.sent = << >> /\ r.self = Self
    /\ \A texts \in Batches, f \in BOOLEAN :
         LET r == TranslateBatch(Self, texts, f, now, "ok", "ok")
         IN  /\ \A i \in DOMAIN r.sent : r.sent[i] # ""
             /\ ~KeptEntry(r.self, "")
             /\ r.out.kind = "ok"
                => \A i \in DOMAIN texts : texts[i] = "" => r.out.val[i] = EmptyStr

\* C7: while the backend is not loaded, translate and translate_batch fail
\* with the 'model is not loaded' error for every non-empty text, cached or
\* not.
C7_NotLoadedFails ==
    ~ModelLoaded(Self)
    => /\ \A text \in NonEmptyTexts, f \in BOOLEAN :
            Translate(Self, text, f, now, "ok", "ok").out
              = Raise("RuntimeError: Translation model is not loaded")
       /\ \A texts \in Batches, f \in BOOLEAN :
            (\E i \in DOMAIN texts : texts[i] # "")
            => TranslateBatch(Self, texts, f, now, "ok", "ok").out
                 = Raise("RuntimeError: Translation model is not loaded")

\* C8: when change_model fails, current_model_id, the backend's model_id and
\* its model/tokenizer pair and the in-memory cache are as before the call.
C8_FailedChangeRollsBack ==
    \A new_id \in RequestedModels, disk \in DiskOutcomes, load \in LoadOutcomes :
        LET r == ChangeModel(Self, new_id, now, disk, load)
        IN  r.out.kind = "error"
            => /\ r.self.current_model_id = current_model_id
               /\ r.self.model_id = model_id
               /\ r.self.model = model
               /\ r.self.tokenizer = tokenizer
               /\ r.self.translation_cache = translation_cache

\* C9: change_model with an id unknown to the registry, not downloaded, or
\* GPU-required without GPU raises and changes nothing: no flush, no backend
\* call, same current_model_id, same in-memory cache.
C9_RejectedChangeTouchesNothing ==
    \A new_id \in RequestedModels, disk \in DiskOutcomes, load \in LoadOutcomes :
        (\/ new_id \notin DOMAIN model_metadata
         \/ ~model_metadata[new_id].downloaded
         \/ model_metadata[new_id].gpu_required /\ ~gpu_available)
        => LET r == ChangeModel(Self, new_id, now, disk, load)
           IN  r.out.kind = "error" /\ r.sent = << >> /\ r.self = Self

\* C9 witness: entries wait to be flushed (the file differs from the cache)
\* and a change to a model that is not downloaded is rejected
C9_Witness ==
    /\ cache_enabled
    /\ cache_operations > 0
    /\ translation_cache # EmptyDict
    /\ files[current_model_id] # JsonFile(translation_cache)
    /\ ChangeModel(Self, NLLB_MODEL_ID, now, "ok", "ok").out.kind = "error"
    /\ ChangeModel(Self, M2M_MODEL_ID, now, "ok", "ok").out.kind = "error"
    /\ ChangeModel(Self, UnknownModelId, now, "ok", "ok").out.kind = "error"

\* the entries of a cache file that _load_cache is meant to keep
ValidEntries(file, t) ==
    IF file.kind = "json"
    THEN SelectSeq(file.data, LAMBDA kv : HasRequiredFields(kv.entry) /\ ~Expired(kv.entry, t))
    ELSE EmptyDict

\* C10: on a disk without failures, set_cache_enabled(False) on an enabled
\* cache writes the in-memory entries to the current model's file, and
\* set_cache_enabled(True) on a disabled cache whose file exists replaces the
\* in-memory cache with the valid entries of that file.
C10_ToggleFlushesAndReloads ==
    /\ cache_enabled
       => LET r == SetCacheEnabled(Self, FALSE, now, "ok")
          IN  /\ ~r.self.cache_enabled
              /\ r.self.files[current_model_id] = JsonFile(r.self.translation_cache)
    /\ (~cache_enabled /\ files[current_model_id] # NoFile)
       => LET r == SetCacheEnabled(Self, TRUE, now, "ok")
          IN  /\ r.self.cache_enabled
              /\ r.self.translation_cache = ValidEntries(files[current_model_id], now)

\* C11: a set_formatting_options call whose dict holds a key outside the
\* option set, or a value that is not a bool, raises ValueError and leaves
\* every formatting option as it was, whatever valid items the dict also
\* holds; a call with valid items only sets exactly the options it names.
InvalidOptions(options) ==
    \E i \in DOMAIN options :
        options[i].key \notin OptionNames \/ options[i].entry \notin PyBools

C11_InvalidOptionsChangeNothing ==
    \A options \in OptionDicts :
        LET r == SetFormattingOptions(Self, options)
        IN  IF InvalidOptions(options)
            THEN /\ r.out.kind = "error"
                 /\ r.self = Self
            ELSE /\ r.out.kind = "ok"
                 /\ \A o \in OptionNames :
                        r.self.formatting_options[o] =
                            IF DictHas(options, o) THEN DictGet(options, o) = "True"
                            ELSE formatting_options[o]

\* some options were switched off by an earlier call, and a dict that
\* starts with a valid item that would switch one back on is rejected
C11_Witness ==
    /\ \E o \in OptionNames : ~formatting_options[o]
    /\ \E options \in OptionDicts :
          /\ Len(options) = 2
          /\ options[1].key \in OptionNames
          /\ options[1].entry = "True"
          /\ ~formatting_options[options[1].key]
          /\ InvalidOptions(options)
          /\ SetFormattingOptions(Self, options).out.kind = "error"

\* the fields of the entries that a failed call must leave alone
RawFields(cache) ==
    [i \in DOMAIN cache |->
        <<cache[i].key, cache[i].entry.translation_raw,
          cache[i].entry.model_id, cache[i].entry.timestamp>>]

\* C12: when translate or translate_batch hands texts to the backend and the
\* backend raises (model not loaded, invalid input, inference error), the
\* call raises, the cache holds the same keys as before, and the raw
\* translation, model_id and timestamp of every entry are as before.  The
\* backend looks at its model and at the input before it infers, so with a
\* failing inference it raises in each of the three ways.
C12_BackendErrorLeavesCache ==
    \A apply_formatting \in BOOLEAN :
        /\ \A text \in Texts :
              LET r == Translate(Self, text, apply_formatting, now, "error", "ok")
              IN  r.sent # << >>
                  => /\ r.out = ModelTranslate(Self, text, "error")
                     /\ r.out.kind = "error"
                     /\ RawFields(r.self.translation_cache) = RawFields(translation_cache)
        /\ \A texts \in Batches :
              LET r == TranslateBatch(Self, texts, apply_formatting, now, "error", "ok")
              IN  r.sent # << >>
                  => /\ r.out = ModelTranslateBatch(Self, r.sent, "error")
                     /\ r.out.kind = "error"
                     /\ RawFields(r.self.translation_cache) = RawFields(translation_cache)

\* the cache holds an entry, the backend is loaded, and an inference error
\* fails the translation of another text and of a batch with that text
C12_Witness ==
    /\ cache_enabled
    /\ ModelLoaded(Self)
    /\ KeptEntry(Self, "a")
    /\ ~KeptEntry(Self, "b")
    /\ Translate(Self, "b", FALSE, now, "error", "ok").out.kind = "error"
    /\ TranslateBatch(Self, <<"a", "b">>, FALSE, now, "error", "ok").sent = <<"b">>
    /\ TranslateBatch(Self, <<"a", "b">>, FALSE, now, "error", "ok").out.kind = "error"

\* C13: when the backend returns a string that starts with 'Error:', the
\* request fails and no entry is stored for the text: a later translate of
\* the same text hands it to the backend again.
C13_SentinelIsNotCached ==
    \A text \in NonEmptyTexts, disk \in SaveOutcomes :
        LET r == ApiTranslate(Self, text, FALSE, now, "sentinel", disk)
        IN  (r.sent = <<text>> /\ ModelTranslate(Self, text, "sentinel").kind = "ok")
            => /\ r.out.kind = "error"
               /\ \A t \in Later :
                     Translate(r.self, text, FALSE, t, "ok", "ok").sent = <<text>>

\* C14: with the cache enabled the in-memory cache never holds more than
\* cache_limit entries, and the entries a cleanup pass removes for capacity
\* (the removed entries that are not expired) are the ones with the smallest
\* timestamps: none of them is younger than an entry the pass keeps.  The
\* size is looked at where no periodic save is due, that is where the
\* counter is below CACHE_SAVE_INTERVAL: a save that failed leaves the
\* counter at or above it.
C14_CacheWithinLimit ==
    /\ (cache_enabled /\ cache_operations < CACHE_SAVE_INTERVAL)
       => Len(translation_cache) <= CACHE_LIMIT_DEFAULT
    /\ \A t \in Later :
          LET kept == CleanupCache(translation_cache, t)
          IN  /\ Len(kept) <= CACHE_LIMIT_DEFAULT
              /\ \A i \in DOMAIN translation_cache, j \in DOMAIN kept :
                    (/\ translation_cache[i].key \notin DictKeys(kept)
                     /\ ~Expired(translation_cache[i].entry, t))
                    => translation_cache[i].entry.timestamp <= kept[j].entry.timestamp

\* C15: where the cache is enabled, the cache file of the current model
\* cannot be parsed and the rename to .bak is not refused by the disk,
\* _load_cache leaves an empty cache, the .bak file holds what the cache file
\* held and the cache file is gone; the cache is usable, a translation that
\* follows is stored; and change_model, which calls _load_cache after a save
\* that failed to replace the file, returns normally with that outcome.
C15_CorruptFileBackedUp ==
    (cache_enabled /\ files[current_model_id] = CorruptFile)
    => LET m == current_model_id
           loaded == LoadCache(Self, now, "ok")
           r == ChangeModel(Self, m, now, "write", "ok")
       IN  /\ loaded.translation_cache = EmptyDict
           /\ loaded.baks[m] = files[m]
           /\ loaded.files[m] = NoFile
           /\ \A text \in NonEmptyTexts \ BlankTexts :
                 LET t == Translate(loaded, text, FALSE, now, "ok", "ok")
                 IN  ModelLoaded(Self)
                     => (t.out.kind = "ok" /\ KeptEntry(t.self, text))
           /\ ValidateModel(Self, m) = ""
              => /\ r.out.kind = "ok"
                 /\ r.self.translation_cache = EmptyDict
                 /\ r.self.baks[m] = CorruptFile
                 /\ r.self.files[m] = NoFile

\* change_model has loaded over a damaged file: the cache is enabled and
\* empty, the damaged file is the .bak file and the cache file is gone
C15_Witness ==
    /\ cache_enabled
    /\ translation_cache = EmptyDict
    /\ files[current_model_id] = NoFile
    /\ baks[current_model_id] = CorruptFile

\* C16: at most one thread is inside a method of the Translator (translate,
\* change_model, clear_cache, set_cache_enabled) at any time.
C16_OneMethodAtATime ==
    Cardinality({t \in Threads : executing[t] # "idle"}) <= 1

C18_FailedUpdateChangesNothing ==
    /\ \A m \in DOMAIN model_metadata :
          /\ model_metadata[m].quality \in MIN_MODEL_QUALITY..MAX_MODEL_QUALITY
          /\ metadata_file[m].quality \in MIN_MODEL_QUALITY..MAX_MODEL_QUALITY
    /\ \A id \in RequestedModels, quality \in Qualities, description \in Descriptions :
          LET r == UpdateModelQuality(Registry, id, quality, description, "ok")
          IN  ~r.success => (/\ r.reg.model_metadata = model_metadata
                             /\ r.reg.metadata_file = metadata_file)

\* C19: with the cache enabled and within its limit, and a disk that takes
\* the writes: if the cache holds an entry of text T under the current
\* model A, then after change_model(B) the file of A holds that entry, and
\* after change_model(A), for as long as the entry is not expired,
\* translate(T, f) hands nothing to the backend.
C19_RoundTripKeepsEntries ==
    \A text \in NonEmptyTexts, B \in KnownModels, apply_formatting \in BOOLEAN, t \in Later :
        LET A == current_model_id
            there == ChangeModel(Self, B, now, "ok", "ok")
            back == ChangeModel(there.self, A, t, "ok", "ok")
            entry == DictGet(translation_cache, CacheKey(text))
        IN  (/\ cache_enabled
             /\ Len(translation_cache) <= CACHE_LIMIT_DEFAULT
             /\ CacheHit(Self, text)
             /\ ~Expired(entry, t)
             /\ there.out.kind = "ok"
             /\ back.out.kind = "ok")
            => /\ there.self.files[A] = JsonFile(translation_cache)
               /\ CacheHit(back.self, text)
               /\ DictGet(back.self.translation_cache, CacheKey(text)) = entry
               /\ Translate(back.self, text, apply_formatting, t, "ok", "ok").sent = << >>

\* the second model is the current one, its cache holds an entry that no
\* file holds yet, and the switch to the default model and back succeeds
C19_Witness ==
    /\ cache_enabled
    /\ current_model_id = M2M_MODEL_ID
    /\ CacheHit(Self, "a")
    /\ files[M2M_MODEL_ID] = NoFile
    /\ ChangeModel(Self, DEFAULT_MODEL_ID, now, "ok", "ok").out.kind = "ok"
    /\ ChangeModel(ChangeModel(Self, DEFAULT_MODEL_ID, now, "ok", "ok").self,
                   M2M_MODEL_ID, now, "ok", "ok").out.kind = "ok"

\* C20: where the cache holds an entry of a text under the current model
\* without a formatted variant, the first formatted request computes the
\* variant, stores it in that entry and returns it, and a later formatted
\* request, by translate or translate_batch, returns the stored variant and
\* leaves the entry as it is.
C20_FormattedVariantStoredOnce ==
    \A text \in NonEmptyTexts :
        LET first == Translate(Self, text, TRUE, now, "ok", "ok")
            stored == DictGet(first.self.translation_cache, CacheKey(text))
            later == Translate(first.self, text, TRUE, now, "ok", "ok")
            batch == TranslateBatch(first.self, <<text>>, TRUE, now, "ok", "ok")
        IN  (/\ cache_enabled
             /\ CacheHit(Self, text)
             /\ ~IsFormatted(DictGet(translation_cache, CacheKey(text))))
            => /\ first.out.kind = "ok"
               /\ IsFormatted(stored)
               /\ stored.translation_formatted = first.out.val
               /\ later.out = first.out
               /\ later.self = first.self
               /\ batch.out = Ok(<<first.out.val>>)
               /\ batch.self = first.self


\* the keys of the in-memory entries that the current model's cache file does
\* not hold as they are: the entries a crash would lose
Unsaved(self) ==
    LET file == self.files[CachePath(self)]
    IN  {k \in DictKeys(self.translation_cache) :
            ~ /\ file.kind = "json"
              /\ DictHas(file.data, k)
              /\ DictGet(file.data, k) = DictGet(self.translation_cache, k)}

\* the counter covers every unsaved entry and is below the save interval:
\* the state the cache is in while its flushes succeed
Accounted(self) ==
    /\ Cardinality(Unsaved(self)) <= self.cache_operations
    /\ Cardinality(Unsaved(self)) <= CACHE_SAVE_INTERVAL - 1

\* C21: with the cache enabled and a disk that takes every write, a completed
\* translate or translate_batch call leaves at most CACHE_SAVE_INTERVAL - 1
\* in-memory entries that the cache file does not hold, all of them counted
\* by cache_operations.
C21_UnsavedBelowInterval ==
    (cache_enabled /\ Accounted(Self)) =>
        \A apply_formatting \in BOOLEAN :
            /\ \A text \in Texts :
                  LET r == Translate(Self, text, apply_formatting, now, "ok", "ok")
                  IN  r.out.kind = "ok" => Accounted(r.self)
            /\ \A texts \in AcceptableBatches :
                  LET r == TranslateBatch(Self, texts, apply_formatting, now, "ok", "ok")
                  IN  r.out.kind = "ok" => Accounted(r.self)

\* a call stored an entry that stays unsaved, and a later call flushed
C21_Witness ==
    /\ cache_enabled
    /\ Cardinality(Unsaved(Self)) = CACHE_SAVE_INTERVAL - 1
    /\ cache_operations = CACHE_SAVE_INTERVAL - 1
    /\ files[current_model_id].kind = "json"
    /\ \E text \in NonEmptyTexts :
          LET r == Translate(Self, text, FALSE, now, "ok", "ok")
          IN  /\ r.sent # << >>
              /\ r.self.cache_operations = 0
              /\ Unsaved(r.self) = {}


\* C22: the entries stored since the last cleanup pass never reach
\* CACHE_CLEANUP_INTERVAL without the pass running in the call that stores
\* the last of them, on a disk that takes the flushes and on one that fails.
C22_CleanupPassRuns ==
    added_since_cleanup < CACHE_CLEANUP_INTERVAL


\* C23: whatever the disk does during a flush, the cache file of the current
\* model is afterwards either what it was before the flush or the snapshot
\* of the in-memory cache this flush wrote.
C23_FlushIsAtomic ==
    cache_enabled =>
        \A disk \in SaveOutcomes :
            LET saved == SaveCache(Self, now, disk)
            IN  saved.files[current_model_id]
                    \in {files[current_model_id], JsonFile(saved.translation_cache)}


\* the [key, entry] pairs of a cache
Pairs(cache) == {cache[i] : i \in DOMAIN cache}

\* the call ends as on a working disk, and its in-memory cache holds the
\* entries a working disk would have left in it and that have not expired
\* (a failed flush leaves the counter to grow, and the cleanup pass it then
\* sets off drops the expired ones), out of the entries it had and stored
SameButFlush(r, r0) ==
    /\ r.out = r0.out
    /\ r.sent = r0.sent
    /\ {kv \in Pairs(r0.self.translation_cache) : ~Expired(kv.entry, now)}
           \subseteq Pairs(r.self.translation_cache)
    /\ DictKeys(r.self.translation_cache)
          \subseteq DictKeys(translation_cache) \cup {CacheKey(r.sent[i]) : i \in DOMAIN r.sent}

\* C24: when a translate or translate_batch call reaches the flush and the
\* flush fails (the directory, the temporary file or the rename), in every
\* state, those left by a failed load included, the call returns what it
\* returns on a working disk and keeps the in-memory cache with the entries
\* it stored.
C24_DiskErrorDoesNotFail ==
    \A apply_formatting \in BOOLEAN :
        /\ \A text \in Texts :
              LET r0 == Translate(Self, text, apply_formatting, now, "ok", "ok")
              IN  ReachesSave(r0) =>
                     \A disk \in SaveFailures :
                        SameButFlush(Translate(Self, text, apply_formatting, now, "ok", disk), r0)
        /\ \A texts \in AcceptableBatches :
              LET r0 == TranslateBatch(Self, texts, apply_formatting, now, "ok", "ok")
              IN  ReachesSave(r0) =>
                     \A disk \in SaveFailures :
                        SameButFlush(TranslateBatch(Self, texts, apply_formatting, now, "ok", disk), r0)

\* a translation whose flush fails after a load that failed
C24_Witness ==
    /\ cache_enabled
    /\ baks[current_model_id] = CorruptFile
    /\ \E text \in NonEmptyTexts :
          LET r == Translate(Self, text, FALSE, now, "ok", "write")
          IN  /\ r.out.kind = "ok"
              /\ r.sent # << >>
              /\ r.self.cache_operations >= CACHE_SAVE_INTERVAL
              /\ r.self.files[current_model_id] # JsonFile(r.self.translation_cache)
              /\ DictHas(r.self.translation_cache, CacheKey(text))


\* an entry that is a mapping carrying translation, model_id and a numeric
\* timestamp
WellFormed(entry) ==
    /\ IsDict(entry)
    /\ HasRequiredFields(entry)
    /\ entry.timestamp # NotANumber

\* C25: when the cache file of the current model is JSON, a load keeps every
\* well-formed entry of the file that has not expired, whatever the other
\* entries of the file are, and holds nothing but entries of the file that
\* carry the three fields and have not expired.
C25_LoadKeepsValidEntries ==
    (cache_enabled /\ files[current_model_id].kind = "json") =>
        LET data == files[current_model_id].data
            loaded == LoadCache(Self, now, "ok").translation_cache
        IN  /\ \A kv \in Pairs(data) :
                  (WellFormed(kv.entry) /\ ~Expired(kv.entry, now)) => kv \in Pairs(loaded)
            /\ \A kv \in Pairs(loaded) :
                  /\ kv \in Pairs(data)
                  /\ WellFormed(kv.entry)
                  /\ ~Expired(kv.entry, now)


\* C26: an entry that the Translator of the ApiServer flushed to the cache
\* file of the model is still in the file after a flush of the Translator of
\* the GUI.
C26_FlushKeepsOthersEntries ==
    (api_translator # << >> /\ cache_enabled /\ files[current_model_id].kind = "json"
        /\ ServerSelf.current_model_id = current_model_id) =>
        \A kv \in Pairs(ServerSelf.translation_cache) \cap Pairs(files[current_model_id].data) :
            DictHas(translation_cache, kv.key)
            \/ DictHas(SaveCache(Self, now, "ok").files[current_model_id].data, kv.key)


\* C27: with the cache enabled and the backend loaded, translate(T, True) of
\* a text whose entry was cached before set_formatting_options changed the
\* options returns the formatter's result for T's raw translation under the
\* options in force at the call.
C27_FormatsUnderCurrentOptions ==
    \A text \in NonEmptyTexts :
        (cache_enabled /\ ModelLoaded(Self) /\ CacheHit(Self, text)
            /\ formatting_options # DEFAULT_OPERATIONS) =>
            LET r == Translate(Self, text, TRUE, now, "ok", "ok")
            IN  /\ r.out.kind = "ok"
                /\ r.out = ProcessTextBody(Tr(model, text), formatting_options)


\* C28: every entry of the in-memory cache carries the model_id of the
\* backend model that produced its translation_raw, also while translate
\* and change_model run in two threads.
C28_EntryNamesItsModel ==
    \A kv \in Pairs(translation_cache) :
        kv.entry.model_id = kv.entry.translation_raw.mdl


\* C29: every entry of the in-memory cache has the model_id of the current
\* model, and every entry of the cache file of a model has the model_id of
\* that model.
C29_EntriesOfTheirModel ==
    /\ \A kv \in Pairs(translation_cache) : kv.entry.model_id = current_model_id
    /\ \A m \in KnownModels :
          files[m].kind = "json" =>
             \A kv \in Pairs(files[m].data) : kv.entry.model_id = m


\* C30: when load has quarantined a corrupt file as .bak and the real path
\* holds no corrupt file, the real path holds none after a flush attempt
\* either, whatever the disk does: it is absent or a snapshot of a flush.
C30_QuarantineStaysAway ==
    (cache_enabled /\ baks[current_model_id] = CorruptFile
        /\ files[current_model_id].kind \in {"absent", "json"}) =>
        \A disk \in SaveOutcomes :
            SaveCache(Self, now, disk).files[current_model_id].kind \in {"absent", "json"}

====
